---- MODULE Spec2Model ----
(***************************************************************************)
(* Two leaf components of the tensor framework:                            *)
(*   - aten/src/ATen/AccumulateType.h: the table mapping (element type,    *)
(*     device) to the accumulation type, and its two query forms;          *)
(*   - lazy_tensor_core/csrc/ops/generic_slice.cpp: the GenericSlice IR    *)
(*     node (construction, Clone, deferred shape).                         *)
(* SpecAcc drives the accumulation-type queries, Spec the building of      *)
(* slice nodes by one thread, SpecConc the shape accessor of one node      *)
(* called by several threads.                                              *)
(***************************************************************************)
EXTENDS Integers, Sequences, FiniteSets, TLC

VARIABLES
  cudacc,     \* build configuration: __CUDACC__ || __HIPCC__ is defined
  query,      \* the acc_type query last instantiated
  result,     \* the type that query resolved to
  nodes,      \* the GenericSlice nodes built so far, in order of construction
  cloneLog,   \* per node: how it was built (constructor, or Clone of which node
              \* over which operands, and what that node was at the time)
  accessed,   \* nodes whose shape accessor has been called at least once
  computing,  \* nodes whose deferred shape computation is in progress
  pc          \* per thread: its position in the shape accessor

vars == <<cudacc, query, result, nodes, cloneLog, accessed, computing, pc>>
accVars == <<cudacc, query, result>>
sliceVars == <<nodes, cloneLog, accessed, computing, pc>>

(***************************************************************************)
(* AccumulateType.h                                                        *)
(***************************************************************************)

FloatingTypes ==
  {"BFloat16", "Half", "Float8_e5m2", "Float8_e5m2fnuz", "Float8_e4m3fn",
   "Float8_e4m3fnuz", "float", "double"}

IntegralTypes == {"int8_t", "uint8_t", "char", "int16_t", "int32_t", "int64_t"}

ComplexTypes == {"complex<Half>", "complex<float>", "complex<double>"}

\* Every element type the header names; "half" is the native CUDA/HIP type.
ElementTypes ==
  FloatingTypes \cup IntegralTypes \cup ComplexTypes \cup {"bool", "half"}

DeviceTypes == {"CPU", "CUDA", "MPS"}

Accelerators == {"CUDA", "MPS"}

\* The primary template AccumulateTypeDevice<T, D> {} has no member `type`:
\* naming ::type of an unspecialised pair is ill-formed.
NoType == "ill-formed"

\* Width in bits of a floating element type (c10 scalar types).
FloatBits(t) ==
  CASE t \in {"Float8_e5m2", "Float8_e5m2fnuz", "Float8_e4m3fn", "Float8_e4m3fnuz"} -> 8
    [] t \in {"BFloat16", "Half", "half"} -> 16
    [] t = "float" -> 32
    [] t = "double" -> 64
    [] OTHER -> 0

MPS_ACC_TYPE_DoubleKept(t) ==
  CASE t \in {"BFloat16", "Half", "Float8_e5m2", "Float8_e5m2fnuz",
              "Float8_e4m3fn", "Float8_e4m3fnuz", "float"} -> "float"
    [] t = "double" -> "double"
    [] t \in IntegralTypes -> "int64_t"
    [] t = "bool" -> "bool"
    [] t \in {"complex<Half>", "complex<float>"} -> "complex<float>"
    [] t = "complex<double>" -> "complex<double>"
    [] OTHER -> NoType

MPS_ACC_TYPE(t) ==
  CASE t = "BFloat16" -> "float"
    [] t = "Half" -> "float"
    [] t = "Float8_e5m2" -> "float"
    [] t = "Float8_e5m2fnuz" -> "float"
    [] t = "Float8_e4m3fn" -> "float"
    [] t = "Float8_e4m3fnuz" -> "float"
    [] t = "float" -> "float"
    [] t = "double" -> "float"
    [] t = "int8_t" -> "int64_t"
    [] t = "uint8_t" -> "int64_t"
    [] t = "char" -> "int64_t"
    [] t = "int16_t" -> "int64_t"
    [] t = "int32_t" -> "int64_t"
    [] t = "int64_t" -> "int64_t"
    [] t = "bool" -> "bool"
    [] t = "complex<Half>" -> "complex<float>"
    [] t = "complex<float>" -> "complex<float>"
    [] t = "complex<double>" -> "complex<float>"
    [] OTHER -> NoType

CUDA_ACC_TYPE_HalfAsDouble(t) ==
  CASE t = "half" /\ cudacc -> "float"
    [] t = "Half" -> "double"
    [] t \in {"BFloat16", "Float8_e5m2", "Float8_e5m2fnuz", "Float8_e4m3fn",
              "Float8_e4m3fnuz", "float"} -> "float"
    [] t = "double" -> "double"
    [] t \in IntegralTypes -> "int64_t"
    [] t = "bool" -> "bool"
    [] t \in {"complex<Half>", "complex<float>"} -> "complex<float>"
    [] t = "complex<double>" -> "complex<double>"
    [] OTHER -> NoType

CUDA_ACC_TYPE(t) ==
  CASE t = "half" /\ cudacc -> "float"
    [] t = "BFloat16" -> "float"
    [] t = "Half" -> "float"
    [] t = "Float8_e5m2" -> "float"
    [] t = "Float8_e5m2fnuz" -> "float"
    [] t = "Float8_e4m3fn" -> "float"
    [] t = "Float8_e4m3fnuz" -> "float"
    [] t = "float" -> "float"
    [] t = "double" -> "double"
    [] t = "int8_t" -> "int64_t"
    [] t = "uint8_t" -> "int64_t"
    [] t = "char" -> "int64_t"
    [] t = "int16_t" -> "int64_t"
    [] t = "int32_t" -> "int64_t"
    [] t = "int64_t" -> "int64_t"
    [] t = "bool" -> "bool"
    [] t = "complex<Half>" -> "complex<float>"
    [] t = "complex<float>" -> "complex<float>"
    [] t = "complex<double>" -> "complex<double>"
    [] OTHER -> NoType

CPU_ACC_TYPE_Int32Kept(t) ==
  CASE t \in {"BFloat16", "Half", "Float8_e5m2", "Float8_e5m2fnuz",
              "Float8_e4m3fn", "Float8_e4m3fnuz"} -> "float"
    [] t \in {"float", "double"} -> "double"
    [] t = "int32_t" -> "int32_t"
    [] t \in IntegralTypes \ {"int32_t"} -> "int64_t"
    [] t = "bool" -> "bool"
    [] t = "complex<Half>" -> "complex<float>"
    [] t \in {"complex<float>", "complex<double>"} -> "complex<double>"
    [] OTHER -> NoType

CPU_ACC_TYPE(t) ==
  CASE t = "BFloat16" -> "float"
    [] t = "Half" -> "float"
    [] t = "Float8_e5m2" -> "float"
    [] t = "Float8_e5m2fnuz" -> "float"
    [] t = "Float8_e4m3fn" -> "float"
    [] t = "Float8_e4m3fnuz" -> "float"
    [] t = "float" -> "double"
    [] t = "double" -> "double"
    [] t = "int8_t" -> "int64_t"
    [] t = "uint8_t" -> "int64_t"
    [] t = "char" -> "int64_t"
    [] t = "int16_t" -> "int64_t"
    [] t = "int32_t" -> "int64_t"
    [] t = "int64_t" -> "int64_t"
    [] t = "bool" -> "bool"
    [] t = "complex<Half>" -> "complex<float>"
    [] t = "complex<float>" -> "complex<double>"
    [] t = "complex<double>" -> "complex<double>"
    [] OTHER -> NoType

\* AccumulateTypeDevice<T, D>::type through the ACC_TYPE specialisations.
AccumulateTypeDevice(t, d) ==
  CASE d = "MPS" -> MPS_ACC_TYPE(t)
    [] d = "CUDA" -> CUDA_ACC_TYPE(t)
    [] d = "CPU" -> CPU_ACC_TYPE(t)
    [] OTHER -> NoType

AccumulateType_TrueIsMPS(t, is_cuda) ==
  IF is_cuda THEN AccumulateTypeDevice(t, "MPS") ELSE AccumulateTypeDevice(t, "CPU")

\* AccumulateType<T, false> and AccumulateType<T, true>.
AccumulateType(t, is_cuda) ==
  IF is_cuda THEN AccumulateTypeDevice(t, "CUDA") ELSE AccumulateTypeDevice(t, "CPU")

acc_type_device(t, device) == AccumulateTypeDevice(t, device)

acc_type(t, is_cuda) == AccumulateType(t, is_cuda)

NoQuery == [form |-> "none", T |-> "bool", device |-> "CPU", is_cuda |-> FALSE]

\* An instantiation of acc_type_device<T, device>.
InstantiateDevice(t, d) ==
  /\ query' = [form |-> "device", T |-> t, device |-> d, is_cuda |-> FALSE]
  /\ result' = acc_type_device(t, d)
  /\ UNCHANGED <<cudacc, sliceVars>>

\* An instantiation of acc_type<T, is_cuda>.
InstantiateFlag(t, b) ==
  /\ query' = [form |-> "flag", T |-> t, device |-> "CPU", is_cuda |-> b]
  /\ result' = acc_type(t, b)
  /\ UNCHANGED <<cudacc, sliceVars>>

(***************************************************************************)
(* generic_slice.cpp                                                       *)
(***************************************************************************)

MaxNodes == 2

NumThreads == 2

\* The values a slice can be taken of, each with the shape of its tensor.
Operands == {[node |-> "x", shape |-> <<2>>], [node |-> "y", shape |-> <<2, 2>>]}

IndexValues == {-1, 0, 1}

SizeValues == {2}

Ranks == {1, 2}

SeqsOver(S, lens) == UNION {[1..n -> S] : n \in lens}

BaseIndexSeqs == SeqsOver(IndexValues, Ranks)

SizeSeqs == SeqsOver(SizeValues, Ranks)

\* Replacement operand lists handed to Clone: empty, one operand, or two.
OpLists == SeqsOver(Operands, {0, 1, 2})

ltc_generic_slice == "lazy_tensors::generic_slice"

HashCombine(a, b) == (a * 31 + b + 1) % (2 ^ 16)

RECURSIVE HashSeq(_)
HashSeq(s) ==
  IF s = <<>> THEN 0 ELSE HashCombine(HashSeq(SubSeq(s, 1, Len(s) - 1)), s[Len(s)] % (2 ^ 16))

\* torch::lazy::MHash(base_indices, sizes)
MHash(base_indices, sizes) == HashCombine(HashSeq(base_indices), HashSeq(sizes))

OpHash(op) == IF op = ltc_generic_slice THEN 17 ELSE 0

OperandHash(v) == IF v.node = "x" THEN 101 ELSE 103

Unset == [state |-> "unset", value |-> <<>>]

Deferred == [state |-> "deferred", value |-> <<>>]

\* The TsNode base: operation kind, operands, outputs, structural hash.
TsNode(op, operands, num_outputs, hash_seed) ==
  [op |-> op, operands |-> operands, num_outputs |-> num_outputs,
   hash |-> HashCombine(OpHash(op), hash_seed), shape |-> Unset, infer_calls |-> 0]

\* The base sub-object and the two members, before the constructor's body runs.
SliceMembers(input, base_indices, sizes, hash_seed) ==
  LET base == TsNode(ltc_generic_slice, <<input>>, 1, hash_seed)
  IN [op |-> base.op, operands |-> base.operands, num_outputs |-> base.num_outputs,
      hash |-> base.hash, shape |-> base.shape, infer_calls |-> base.infer_calls,
      base_indices_ |-> base_indices, sizes_ |-> sizes]

\* Registers the shape computation; it runs at the first access to the shape.
SetShapeDeferred(node) == [node EXCEPT !.shape = Deferred]

\* compiler::InferShape for a generic slice: the output extents are `sizes`,
\* and attributes inconsistent with the input's shape are an error.
InferShape(node) ==
  LET input == node.operands[1].shape
      b == node.base_indices_
      s == node.sizes_
  IN IF /\ Len(b) = Len(input)
        /\ Len(s) = Len(input)
        /\ \A i \in 1..Len(input) : b[i] >= 0 /\ b[i] + s[i] <= input[i]
     THEN [ok |-> TRUE, shape |-> s]
     ELSE [ok |-> FALSE, shape |-> <<>>]

\* The callback of the constructor: [&]() { return compiler::InferShape(this); }
ShapeFn(node) == InferShape(node)

\* One run of the registered callback, its outcome (a shape, or the error)
\* stored in the node's shape slot.
Evaluate(node) ==
  LET r == ShapeFn(node)
  IN [node EXCEPT !.shape = IF r.ok THEN [state |-> "evaluated", value |-> r.shape]
                                   ELSE [state |-> "failed", value |-> <<>>],
                  !.infer_calls = @ + 1]

\* What an access does in one thread: the callback runs if the shape is
\* still deferred, and the memoized outcome is used otherwise.
Force(node) == IF node.shape.state = "deferred" THEN Evaluate(node) ELSE node

GenericSlice_EagerInfer(input, base_indices, sizes) ==
  Force(SetShapeDeferred(
    SliceMembers(input, base_indices, sizes, MHash(base_indices, sizes))))

GenericSlice_InferAndDefer(input, base_indices, sizes) ==
  [SetShapeDeferred(
     SliceMembers(input, base_indices, sizes, MHash(base_indices, sizes)))
   EXCEPT !.infer_calls = 1]

GenericSlice_ShapeFromSizes(input, base_indices, sizes) ==
  [SliceMembers(input, base_indices, sizes, MHash(base_indices, sizes))
   EXCEPT !.shape = [state |-> "evaluated", value |-> sizes]]

GenericSlice_HashInput(input, base_indices, sizes) ==
  SetShapeDeferred(
    SliceMembers(input, base_indices, sizes,
                 HashCombine(MHash(base_indices, sizes), OperandHash(input))))

\* GenericSlice::GenericSlice(input, base_indices, sizes)
GenericSlice(input, base_indices, sizes) ==
  SetShapeDeferred(
    SliceMembers(input, base_indices, sizes, MHash(base_indices, sizes)))

Clone_KeepsInput(node, operands) ==
  GenericSlice(node.operands[1], node.base_indices_, node.sizes_)

\* GenericSlice::Clone(operands); operands.at(0) needs a non-empty list.
Clone(node, operands) ==
  GenericSlice(operands[1], node.base_indices_, node.sizes_)

Idle == [at |-> "idle", node |-> 0, ok |-> FALSE, value |-> <<>>]

ByConstructor ==
  [src |-> 0, operands |-> <<>>, base_indices |-> <<>>, sizes |-> <<>>, input |-> <<>>]

\* A slice operation is recorded into the graph.
Construct(input, base_indices, sizes) ==
  /\ Len(nodes) < MaxNodes
  /\ nodes' = Append(nodes, GenericSlice(input, base_indices, sizes))
  /\ cloneLog' = Append(cloneLog, ByConstructor)
  /\ UNCHANGED <<accessed, computing, pc, accVars>>

\* A graph pass clones node j over the replacement operands ops. With an
\* empty list operands.at(0) throws and no node is made.
CloneNode(j, ops) ==
  /\ Len(nodes) < MaxNodes
  /\ j \in DOMAIN nodes
  /\ Len(ops) >= 1
  /\ nodes' = Append(nodes, Clone(nodes[j], ops))
  /\ cloneLog' = Append(cloneLog,
        [src |-> j, operands |-> ops,
         base_indices |-> nodes[j].base_indices_, sizes |-> nodes[j].sizes_,
         input |-> nodes[j].operands])
  /\ UNCHANGED <<accessed, computing, pc, accVars>>

\* The shape accessor called by the single thread that builds the graph.
GetShape(n) ==
  /\ n \in DOMAIN nodes
  /\ nodes' = [nodes EXCEPT ![n] = Force(@)]
  /\ accessed' = accessed \cup {n}
  /\ UNCHANGED <<cloneLog, computing, pc, accVars>>

\* The shape accessor called from several threads: a call ...
ShapeCall(t, n) ==
  /\ pc[t].at = "idle"
  /\ n \in DOMAIN nodes
  /\ pc' = [pc EXCEPT ![t] = [at |-> "called", node |-> n, ok |-> FALSE, value |-> <<>>]]
  /\ accessed' = accessed \cup {n}
  /\ UNCHANGED <<nodes, cloneLog, computing, accVars>>

\* ... waits while another thread computes, then either finds the outcome
\* memoized or becomes the one thread that computes it ...
ShapeEnter(t) ==
  /\ pc[t].at = "called"
  /\ pc[t].node \notin computing
  /\ LET n == pc[t].node
         slot == nodes[n].shape
     IN IF slot.state = "deferred"
        THEN /\ computing' = computing \cup {n}
             /\ pc' = [pc EXCEPT ![t].at = "compute"]
        ELSE /\ computing' = computing
             /\ pc' = [pc EXCEPT ![t] = [at |-> "returned", node |-> n,
                                         ok |-> slot.state = "evaluated",
                                         value |-> slot.value]]
  /\ UNCHANGED <<nodes, cloneLog, accessed, accVars>>

\* ... runs the deferred computation and memoizes its outcome ...
ShapeCompute(t) ==
  /\ pc[t].at = "compute"
  /\ LET n == pc[t].node
         done == Evaluate(nodes[n])
     IN /\ nodes' = [nodes EXCEPT ![n] = done]
        /\ computing' = computing \ {n}
        /\ pc' = [pc EXCEPT ![t] = [at |-> "returned", node |-> n,
                                    ok |-> done.shape.state = "evaluated",
                                    value |-> done.shape.value]]
  /\ UNCHANGED <<cloneLog, accessed, accVars>>

\* ... and the caller goes on with the shape (or the error) it was given.
ShapeReturn(t) ==
  /\ pc[t].at = "returned"
  /\ pc' = [pc EXCEPT ![t] = Idle]
  /\ UNCHANGED <<nodes, cloneLog, accessed, computing, accVars>>

(***************************************************************************)
(* Specifications                                                          *)
(***************************************************************************)

AccIdle == query = NoQuery /\ result = NoType

\* Graph building by one thread.
Init ==
  /\ cudacc = FALSE
  /\ AccIdle
  /\ nodes = <<>>
  /\ cloneLog = <<>>
  /\ accessed = {}
  /\ computing = {}
  /\ pc = [t \in {1} |-> Idle]

Next ==
  \/ \E v \in Operands, b \in BaseIndexSeqs, s \in SizeSeqs : Construct(v, b, s)
  \/ \E j \in 1..MaxNodes, ops \in OpLists : CloneNode(j, ops)
  \/ \E n \in 1..MaxNodes : GetShape(n)

Spec == Init /\ [][Next]_vars

\* One node, already built, whose shape is asked for by NumThreads threads.
InitConc ==
  /\ cudacc = FALSE
  /\ AccIdle
  /\ \E v \in Operands, b \in BaseIndexSeqs, s \in SizeSeqs :
        nodes = <<GenericSlice(v, b, s)>>
  /\ cloneLog = <<ByConstructor>>
  /\ accessed = {}
  /\ computing = {}
  /\ pc = [t \in 1..NumThreads |-> Idle]

NextConc ==
  \/ \E t \in DOMAIN pc, n \in DOMAIN nodes : ShapeCall(t, n)
  \/ \E t \in DOMAIN pc : ShapeEnter(t)
  \/ \E t \in DOMAIN pc : ShapeCompute(t)
  \/ \E t \in DOMAIN pc : ShapeReturn(t)

SpecConc == InitConc /\ [][NextConc]_vars

\* The accumulation-type queries, in both build configurations.
InitAcc ==
  /\ cudacc \in BOOLEAN
  /\ AccIdle
  /\ nodes = <<>>
  /\ cloneLog = <<>>
  /\ accessed = {}
  /\ computing = {}
  /\ pc = [t \in {1} |-> Idle]

NextAcc ==
  \/ \E t \in ElementTypes, d \in DeviceTypes : InstantiateDevice(t, d)
  \/ \E t \in ElementTypes, b \in BOOLEAN : InstantiateFlag(t, b)

SpecAcc == InitAcc /\ [][NextAcc]_vars

(***************************************************************************)
(* Properties of the accumulation-type table (checked under SpecAcc)       *)
(***************************************************************************)

DeviceQuery == query.form = "device"

\* C1 as stated: for every floating-point element type T of the table and
\* every accelerator device (CUDA and MPS), the accumulation type of
\* (T, device) is never wider than single-precision float.
C1_AcceleratorNeverWiderThanFloat ==
  (DeviceQuery /\ query.T \in FloatingTypes /\ query.device \in Accelerators)
    => FloatBits(result) \in 1..32

\* C1 as amended: on MPS every floating-point T accumulates in a type no
\* wider than float; on CUDA every floating-point T other than double
\* accumulates in a type no wider than float, and double accumulates in
\* double.
C1_AcceleratorFloatCapExceptCudaDouble ==
  (DeviceQuery /\ query.T \in FloatingTypes /\ query.device \in Accelerators)
    => IF query.device = "CUDA" /\ query.T = "double"
       THEN result = "double"
       ELSE FloatBits(result) \in 1..32

C1_Witness ==
  /\ DeviceQuery
  /\ query.T = "double"
  /\ query.device = "CUDA"
  /\ result = "double"

\* C2: the boolean-flag form agrees with the device-class form:
\* acc_type<T, true> is the CUDA entry of T and acc_type<T, false> the CPU
\* entry of T.
C2_FlagAgreesWithDevice ==
  query.form = "flag"
    => result = IF query.is_cuda THEN AccumulateTypeDevice(query.T, "CUDA")
                                 ELSE AccumulateTypeDevice(query.T, "CPU")

C2_Witness ==
  /\ query.form = "flag"
  /\ query.is_cuda
  /\ query.T = "complex<double>"
  /\ result = "complex<double>"

\* C3: for every floating-point element type T of the table, the CPU
\* accumulation type is double.
C3_CpuFloatingIsDouble ==
  (DeviceQuery /\ query.T \in FloatingTypes /\ query.device = "CPU")
    => result = "double"

\* C4 as stated: on every accelerator device (CUDA and MPS) complex<double>
\* accumulates in complex<float>, and on CPU complex<float> accumulates in
\* complex<double>.
C4_ComplexDoubleSingleOnAccelerators ==
  /\ (DeviceQuery /\ query.T = "complex<double>" /\ query.device \in Accelerators)
       => result = "complex<float>"
  /\ (DeviceQuery /\ query.T = "complex<float>" /\ query.device = "CPU")
       => result = "complex<double>"

\* C4 as amended: on MPS complex<double> accumulates in complex<float>, on
\* CUDA complex<double> accumulates in complex<double>, and on CPU
\* complex<float> accumulates in complex<double>.
C4_ComplexDoubleSingleOnMpsOnly ==
  /\ (DeviceQuery /\ query.T = "complex<double>" /\ query.device = "MPS")
       => result = "complex<float>"
  /\ (DeviceQuery /\ query.T = "complex<double>" /\ query.device = "CUDA")
       => result = "complex<double>"
  /\ (DeviceQuery /\ query.T = "complex<float>" /\ query.device = "CPU")
       => result = "complex<double>"

C4_Witness ==
  /\ DeviceQuery
  /\ query.T = "complex<double>"
  /\ query.device = "MPS"
  /\ result = "complex<float>"

\* C5: on every device (CPU, CUDA, MPS) bool accumulates in bool and every
\* integer element type of the table accumulates in int64_t.
C5_BoolAndIntegers ==
  /\ (DeviceQuery /\ query.T = "bool") => result = "bool"
  /\ (DeviceQuery /\ query.T \in IntegralTypes) => result = "int64_t"

C5_Witness ==
  /\ DeviceQuery
  /\ query.T = "int32_t"
  /\ query.device = "CPU"
  /\ result = "int64_t"

(***************************************************************************)
(* Properties of the GenericSlice node                                     *)
(***************************************************************************)

\* base_indices/sizes agree with the shape of the node's input.
SliceConsistent(node) ==
  LET dims == node.operands[1].shape
  IN /\ Len(node.base_indices_) = Len(dims)
     /\ Len(node.sizes_) = Len(dims)
     /\ \A i \in 1..Len(dims) :
          /\ node.base_indices_[i] >= 0
          /\ node.base_indices_[i] + node.sizes_[i] <= dims[i]

C7_CloneKeepsAttributesBindsOperand ==
  \A i \in DOMAIN nodes :
    (cloneLog[i].src # 0 /\ Len(cloneLog[i].operands) = 1)
      => LET orig == nodes[cloneLog[i].src]
         IN /\ nodes[i].base_indices_ = cloneLog[i].base_indices
            /\ nodes[i].sizes_ = cloneLog[i].sizes
            /\ nodes[i].operands = <<cloneLog[i].operands[1]>>
            /\ orig.base_indices_ = cloneLog[i].base_indices
            /\ orig.sizes_ = cloneLog[i].sizes
            /\ orig.operands = cloneLog[i].input

C7_Witness ==
  \E i \in DOMAIN nodes :
    /\ cloneLog[i].src # 0
    /\ Len(cloneLog[i].operands) = 1
    /\ cloneLog[i].operands[1] # nodes[cloneLog[i].src].operands[1]
    /\ nodes[i].operands[1] = cloneLog[i].operands[1]
    /\ nodes[i].base_indices_ = <<1, 0>>

====
